---- MODULE Spec2Model ----
(***************************************************************************)
(* Model of the monthly summary page of hawkarabdulhaq/watertable          *)
(* (src/monthly.py, monthly_page): metadata merge, column resolution,      *)
(* derivation and time binning, long-form preview and wide-form pivot.     *)
(*                                                                         *)
(* Column names are modelled as tuples of characters, so that the          *)
(* formatting of the pivoted column names, the split at the last           *)
(* underscore and the lexicographic sort act on them as on Python strings. *)
(* A cell is Null (<<>>) or <<v>>.  A table (pandas DataFrame) is a record *)
(* [cols |-> sequence of names, rows |-> sequence of rows], a row being    *)
(* the sequence of its cells in the order of cols.                         *)
(***************************************************************************)
EXTENDS Integers, Sequences, FiniteSets, TLC

(***************************************************************************)
(* Characters and strings                                                  *)
(***************************************************************************)
\* The characters used, in code point order (the order of Python's sorted).
Alphabet ==
    << "-", "/",
       "0", "1", "2", "3", "4", "5", "6", "7", "8", "9",
       "A", "B", "C", "D", "E", "F", "G", "H", "I", "J", "K", "L", "M",
       "N", "O", "P", "Q", "R", "S", "T", "U", "V", "W", "X", "Y", "Z",
       "_",
       "a", "b", "c", "d", "e", "f", "g", "h", "i", "j", "k", "l", "m",
       "n", "o", "p", "q", "r", "s", "t", "u", "v", "w", "x", "y", "z",
       "á", "í" >>

Ord(ch) == CHOOSE i \in 1..Len(Alphabet) : Alphabet[i] = ch

Digits == <<"0", "1", "2", "3", "4", "5", "6", "7", "8", "9">>

IsDigit(ch) == \E i \in 1..Len(Digits) : Digits[i] = ch

DigitVal(ch) == (CHOOSE i \in 1..Len(Digits) : Digits[i] = ch) - 1

\* a < b for Python strings: the first differing character decides, a
\* proper prefix is smaller.
StrLess(a, b) ==
    \E k \in 1..(Len(a) + 1) :
        /\ k <= Len(b)
        /\ \A i \in 1..(k - 1) : a[i] = b[i]
        /\ \/ k = Len(a) + 1
           \/ Ord(a[k]) < Ord(b[k])

\* str(n) for an integer n >= 0.
RECURSIVE IntStr(_)
IntStr(n) ==
    IF n < 10 THEN <<Digits[n + 1]>>
    ELSE Append(IntStr(n \div 10), Digits[(n % 10) + 1])

\* f"{n:02d}" for an integer n >= 0.
Pad2(n) == IF n < 10 THEN <<"0">> \o IntStr(n) ELSE IntStr(n)

\* int(s) for a string of decimal digits.
RECURSIVE StrInt(_)
StrInt(s) ==
    IF Len(s) = 0 THEN 0
    ELSE 10 * StrInt(SubSeq(s, 1, Len(s) - 1)) + DigitVal(s[Len(s)])

\* s.rsplit("_", 1)[0]: the part before the last underscore, the whole
\* string when there is none.
RSplitBase(s) ==
    IF \E i \in 1..Len(s) : s[i] = "_"
    THEN LET k == CHOOSE i \in 1..Len(s) :
                      /\ s[i] = "_"
                      /\ \A j \in (i + 1)..Len(s) : s[j] # "_"
         IN  SubSeq(s, 1, k - 1)
    ELSE s

Range(s) == {s[i] : i \in 1..Len(s)}

\* sorted(S) for a finite set of strings: the i-th element is the one with
\* i - 1 smaller elements.
SortedStrings(S) ==
    [i \in 1..Cardinality(S) |->
        CHOOSE x \in S : Cardinality({y \in S : StrLess(y, x)}) = i - 1]

(***************************************************************************)
(* Column names (src/monthly.py)                                           *)
(***************************************************************************)
\* "Rendszam"
c_Rendszam ==
    <<"R", "e", "n", "d", "s", "z", "a", "m">>
\* "vmoTipusKod"
c_vmoTipusKod ==
    <<"v", "m", "o", "T", "i", "p", "u", "s", "K", "o", "d">>
\* "Torzsszam"
c_Torzsszam ==
    <<"T", "o", "r", "z", "s", "s", "z", "a", "m">>
\* "vmoNev"
c_vmoNev ==
    <<"v", "m", "o", "N", "e", "v">>
\* "VMOEov_EOVx"
c_VMOEov_EOVx ==
    <<"V", "M", "O", "E", "o", "v", "_", "E", "O", "V", "x">>
\* "VMOEov_EOVy"
c_VMOEov_EOVy ==
    <<"V", "M", "O", "E", "o", "v", "_", "E", "O", "V", "y">>
\* "vFkAllomas_AdatgazdaNev"
c_vFkAllomas_AdatgazdaNev ==
    <<"v", "F", "k", "A", "l", "l", "o", "m", "a", "s", "_", "A", "d", "a", "t", "g", "a", "z", "d", "a", "N", "e", "v">>
\* "vFkAllomas_Nevr"
c_vFkAllomas_Nevr ==
    <<"v", "F", "k", "A", "l", "l", "o", "m", "a", "s", "_", "N", "e", "v", "r">>
\* "vFkAllomas_Leiras"
c_vFkAllomas_Leiras ==
    <<"v", "F", "k", "A", "l", "l", "o", "m", "a", "s", "_", "L", "e", "i", "r", "a", "s">>
\* "vFkAllomas_TalajvizkutTelepulesNev"
c_vFkAllomas_TalajvizkutTelepulesNev ==
    <<"v", "F", "k", "A", "l", "l", "o", "m", "a", "s", "_", "T", "a", "l", "a", "j", "v", "i", "z", "k", "u", "t", "T", "e", "l", "e", "p", "u", "l", "e", "s", "N", "e", "v">>
\* "vFkAllomas_KapcsSzkmNev"
c_vFkAllomas_KapcsSzkmNev ==
    <<"v", "F", "k", "A", "l", "l", "o", "m", "a", "s", "_", "K", "a", "p", "c", "s", "S", "z", "k", "m", "N", "e", "v">>
\* "vFkAllomas_AllomasTavmBemenetNev"
c_vFkAllomas_AllomasTavmBemenetNev ==
    <<"v", "F", "k", "A", "l", "l", "o", "m", "a", "s", "_", "A", "l", "l", "o", "m", "a", "s", "T", "a", "v", "m", "B", "e", "m", "e", "n", "e", "t", "N", "e", "v">>
\* "vFkAllomas_AllomasTVA"
c_vFkAllomas_AllomasTVA ==
    <<"v", "F", "k", "A", "l", "l", "o", "m", "a", "s", "_", "A", "l", "l", "o", "m", "a", "s", "T", "V", "A">>
\* "vFkAllomas_TalajvizkutKatSzam"
c_vFkAllomas_TalajvizkutKatSzam ==
    <<"v", "F", "k", "A", "l", "l", "o", "m", "a", "s", "_", "T", "a", "l", "a", "j", "v", "i", "z", "k", "u", "t", "K", "a", "t", "S", "z", "a", "m">>
\* "vFkAllomas_TalajvizkutJelzoszam"
c_vFkAllomas_TalajvizkutJelzoszam ==
    <<"v", "F", "k", "A", "l", "l", "o", "m", "a", "s", "_", "T", "a", "l", "a", "j", "v", "i", "z", "k", "u", "t", "J", "e", "l", "z", "o", "s", "z", "a", "m">>
\* "vFkAllomas_FkAllAdatforgTipNev"
c_vFkAllomas_FkAllAdatforgTipNev ==
    <<"v", "F", "k", "A", "l", "l", "o", "m", "a", "s", "_", "F", "k", "A", "l", "l", "A", "d", "a", "t", "f", "o", "r", "g", "T", "i", "p", "N", "e", "v">>
\* "vFkAllomas_TalajvizkutVizminVanE"
c_vFkAllomas_TalajvizkutVizminVanE ==
    <<"v", "F", "k", "A", "l", "l", "o", "m", "a", "s", "_", "T", "a", "l", "a", "j", "v", "i", "z", "k", "u", "t", "V", "i", "z", "m", "i", "n", "V", "a", "n", "E">>
\* "vFkAllomas_TalajvizkutTipuskodNev"
c_vFkAllomas_TalajvizkutTipuskodNev ==
    <<"v", "F", "k", "A", "l", "l", "o", "m", "a", "s", "_", "T", "a", "l", "a", "j", "v", "i", "z", "k", "u", "t", "T", "i", "p", "u", "s", "k", "o", "d", "N", "e", "v">>
\* "vFkAllomas_TalajvizkutTerepmag"
c_vFkAllomas_TalajvizkutTerepmag ==
    <<"v", "F", "k", "A", "l", "l", "o", "m", "a", "s", "_", "T", "a", "l", "a", "j", "v", "i", "z", "k", "u", "t", "T", "e", "r", "e", "p", "m", "a", "g">>
\* "vFkAllomas_TalajvizkutKutperemmag"
c_vFkAllomas_TalajvizkutKutperemmag ==
    <<"v", "F", "k", "A", "l", "l", "o", "m", "a", "s", "_", "T", "a", "l", "a", "j", "v", "i", "z", "k", "u", "t", "K", "u", "t", "p", "e", "r", "e", "m", "m", "a", "g">>
\* "vFkAllomas_TalajvizkutKutmelyseg"
c_vFkAllomas_TalajvizkutKutmelyseg ==
    <<"v", "F", "k", "A", "l", "l", "o", "m", "a", "s", "_", "T", "a", "l", "a", "j", "v", "i", "z", "k", "u", "t", "K", "u", "t", "m", "e", "l", "y", "s", "e", "g">>
\* "vFkAllomas_TalajvizjutGyorsadat"
c_vFkAllomas_TalajvizjutGyorsadat ==
    <<"v", "F", "k", "A", "l", "l", "o", "m", "a", "s", "_", "T", "a", "l", "a", "j", "v", "i", "z", "j", "u", "t", "G", "y", "o", "r", "s", "a", "d", "a", "t">>
\* "vFkAllomas_FkAllVKImon"
c_vFkAllomas_FkAllVKImon ==
    <<"v", "F", "k", "A", "l", "l", "o", "m", "a", "s", "_", "F", "k", "A", "l", "l", "V", "K", "I", "m", "o", "n">>
\* "vFkAllomas_FkAllUzemelesNev"
c_vFkAllomas_FkAllUzemelesNev ==
    <<"v", "F", "k", "A", "l", "l", "o", "m", "a", "s", "_", "F", "k", "A", "l", "l", "U", "z", "e", "m", "e", "l", "e", "s", "N", "e", "v">>
\* "VMOEov_Torzsszam"
c_VMOEov_Torzsszam ==
    <<"V", "M", "O", "E", "o", "v", "_", "T", "o", "r", "z", "s", "s", "z", "a", "m">>
\* "vFaAllomas_AdatgazdaNev"
c_vFaAllomas_AdatgazdaNev ==
    <<"v", "F", "a", "A", "l", "l", "o", "m", "a", "s", "_", "A", "d", "a", "t", "g", "a", "z", "d", "a", "N", "e", "v">>
\* "vFaAllomas_RetegvizkutTelepulesNev"
c_vFaAllomas_RetegvizkutTelepulesNev ==
    <<"v", "F", "a", "A", "l", "l", "o", "m", "a", "s", "_", "R", "e", "t", "e", "g", "v", "i", "z", "k", "u", "t", "T", "e", "l", "e", "p", "u", "l", "e", "s", "N", "e", "v">>
\* "vFaAllomas_KapcsSzkmNev"
c_vFaAllomas_KapcsSzkmNev ==
    <<"v", "F", "a", "A", "l", "l", "o", "m", "a", "s", "_", "K", "a", "p", "c", "s", "S", "z", "k", "m", "N", "e", "v">>
\* "vFaAllomas_AllomasTVA"
c_vFaAllomas_AllomasTVA ==
    <<"v", "F", "a", "A", "l", "l", "o", "m", "a", "s", "_", "A", "l", "l", "o", "m", "a", "s", "T", "V", "A">>
\* "vFaAllomas_RetegvizkutJellegkodNev"
c_vFaAllomas_RetegvizkutJellegkodNev ==
    <<"v", "F", "a", "A", "l", "l", "o", "m", "a", "s", "_", "R", "e", "t", "e", "g", "v", "i", "z", "k", "u", "t", "J", "e", "l", "l", "e", "g", "k", "o", "d", "N", "e", "v">>
\* "vFaAllomas_RetegvizkutKatSzam"
c_vFaAllomas_RetegvizkutKatSzam ==
    <<"v", "F", "a", "A", "l", "l", "o", "m", "a", "s", "_", "R", "e", "t", "e", "g", "v", "i", "z", "k", "u", "t", "K", "a", "t", "S", "z", "a", "m">>
\* "vFaAllomas_FaAllAdatforgTipNev"
c_vFaAllomas_FaAllAdatforgTipNev ==
    <<"v", "F", "a", "A", "l", "l", "o", "m", "a", "s", "_", "F", "a", "A", "l", "l", "A", "d", "a", "t", "f", "o", "r", "g", "T", "i", "p", "N", "e", "v">>
\* "vFaAllomas_RetegvizkutTipuskodNev"
c_vFaAllomas_RetegvizkutTipuskodNev ==
    <<"v", "F", "a", "A", "l", "l", "o", "m", "a", "s", "_", "R", "e", "t", "e", "g", "v", "i", "z", "k", "u", "t", "T", "i", "p", "u", "s", "k", "o", "d", "N", "e", "v">>
\* "vFaAllomas_RetegvizkutJelzoszam"
c_vFaAllomas_RetegvizkutJelzoszam ==
    <<"v", "F", "a", "A", "l", "l", "o", "m", "a", "s", "_", "R", "e", "t", "e", "g", "v", "i", "z", "k", "u", "t", "J", "e", "l", "z", "o", "s", "z", "a", "m">>
\* "vFaAllomas_RetegvizkutTerepmag"
c_vFaAllomas_RetegvizkutTerepmag ==
    <<"v", "F", "a", "A", "l", "l", "o", "m", "a", "s", "_", "R", "e", "t", "e", "g", "v", "i", "z", "k", "u", "t", "T", "e", "r", "e", "p", "m", "a", "g">>
\* "vFaAllomas_RetegvizkutKutperemmag"
c_vFaAllomas_RetegvizkutKutperemmag ==
    <<"v", "F", "a", "A", "l", "l", "o", "m", "a", "s", "_", "R", "e", "t", "e", "g", "v", "i", "z", "k", "u", "t", "K", "u", "t", "p", "e", "r", "e", "m", "m", "a", "g">>
\* "vFaAllomas_RetegvizkutKutmelyseg"
c_vFaAllomas_RetegvizkutKutmelyseg ==
    <<"v", "F", "a", "A", "l", "l", "o", "m", "a", "s", "_", "R", "e", "t", "e", "g", "v", "i", "z", "k", "u", "t", "K", "u", "t", "m", "e", "l", "y", "s", "e", "g">>
\* "vFaAllomas_FaAllVKImon"
c_vFaAllomas_FaAllVKImon ==
    <<"v", "F", "a", "A", "l", "l", "o", "m", "a", "s", "_", "F", "a", "A", "l", "l", "V", "K", "I", "m", "o", "n">>
\* "vFaAllomas_FaAllUzemelesNev"
c_vFaAllomas_FaAllUzemelesNev ==
    <<"v", "F", "a", "A", "l", "l", "o", "m", "a", "s", "_", "F", "a", "A", "l", "l", "U", "z", "e", "m", "e", "l", "e", "s", "N", "e", "v">>
\* "Talajvízállás"
c_Talajvizallas_accented ==
    <<"T", "a", "l", "a", "j", "v", "í", "z", "á", "l", "l", "á", "s">>
\* "Talajvizallas"
c_Talajvizallas ==
    <<"T", "a", "l", "a", "j", "v", "i", "z", "a", "l", "l", "a", "s">>
\* "Datum"
c_Datum ==
    <<"D", "a", "t", "u", "m">>
\* "Year"
c_Year ==
    <<"Y", "e", "a", "r">>
\* "Month"
c_Month ==
    <<"M", "o", "n", "t", "h">>
\* "vizkutfenekmagasag"
c_vizkutfenekmagasag ==
    <<"v", "i", "z", "k", "u", "t", "f", "e", "n", "e", "k", "m", "a", "g", "a", "s", "a", "g">>
\* "date"
c_date ==
    <<"d", "a", "t", "e">>
\* "mean"
c_mean ==
    <<"m", "e", "a", "n">>
\* "min"
c_min ==
    <<"m", "i", "n">>
\* "max"
c_max ==
    <<"m", "a", "x">>
META_COLS_MELY ==
    << c_Rendszam,
       c_VMOEov_EOVx,
       c_VMOEov_EOVy,
       c_vmoNev,
       c_VMOEov_Torzsszam,
       c_vFaAllomas_AdatgazdaNev,
       c_vFaAllomas_RetegvizkutTelepulesNev,
       c_vFaAllomas_KapcsSzkmNev,
       c_vFaAllomas_AllomasTVA,
       c_vFaAllomas_RetegvizkutJellegkodNev,
       c_vFaAllomas_RetegvizkutKatSzam,
       c_vFaAllomas_FaAllAdatforgTipNev,
       c_vFaAllomas_RetegvizkutTipuskodNev,
       c_vFaAllomas_RetegvizkutJelzoszam,
       c_vFaAllomas_RetegvizkutTerepmag,
       c_vFaAllomas_RetegvizkutKutperemmag,
       c_vFaAllomas_RetegvizkutKutmelyseg,
       c_vFaAllomas_FaAllVKImon,
       c_vFaAllomas_FaAllUzemelesNev >>
META_COLS_TALAJ ==
    << c_Rendszam,
       c_vmoTipusKod,
       c_Torzsszam,
       c_vmoNev,
       c_VMOEov_EOVx,
       c_VMOEov_EOVy,
       c_vFkAllomas_AdatgazdaNev,
       c_vFkAllomas_Nevr,
       c_vFkAllomas_Leiras,
       c_vFkAllomas_TalajvizkutTelepulesNev,
       c_vFkAllomas_KapcsSzkmNev,
       c_vFkAllomas_AllomasTavmBemenetNev,
       c_vFkAllomas_AllomasTVA,
       c_vFkAllomas_TalajvizkutKatSzam,
       c_vFkAllomas_TalajvizkutJelzoszam,
       c_vFkAllomas_FkAllAdatforgTipNev,
       c_vFkAllomas_TalajvizkutVizminVanE,
       c_vFkAllomas_TalajvizkutTipuskodNev,
       c_vFkAllomas_TalajvizkutTerepmag,
       c_vFkAllomas_TalajvizkutKutperemmag,
       c_vFkAllomas_TalajvizkutKutmelyseg,
       c_vFkAllomas_TalajvizjutGyorsadat,
       c_vFkAllomas_FkAllVKImon,
       c_vFkAllomas_FkAllUzemelesNev >>


META_COLS_BY_TABLE ==
    [melyviz_table |-> META_COLS_MELY, talajviz_table |-> META_COLS_TALAJ]

\* Used by usecols only as a membership test.
ALL_META_COLS == Range(META_COLS_MELY) \cup Range(META_COLS_TALAJ)

\* The keys of the opts dictionary, in its order.
StatOrder == <<c_mean, c_min, c_max>>

(***************************************************************************)
(* Cells and tables (the pandas operations monthly_page uses)              *)
(***************************************************************************)
Null == <<>>

IsNull(v) == Len(v) = 0

EmptyFrame == [cols |-> <<>>, rows |-> <<>>]

HasCol(df, c) == \E i \in 1..Len(df.cols) : df.cols[i] = c

ColIdx(df, c) == CHOOSE i \in 1..Len(df.cols) : df.cols[i] = c

NRows(df) == Len(df.rows)

\* df[c]
Column(df, c) == [r \in 1..NRows(df) |-> df.rows[r][ColIdx(df, c)]]

RECURSIVE Flatten(_)
Flatten(ss) ==
    IF Len(ss) = 0 THEN <<>> ELSE Head(ss) \o Flatten(Tail(ss))

\* Lexicographic order of two integer tuples of the same length.
TupleLess(a, b) ==
    \E k \in 1..Len(a) :
        /\ \A i \in 1..(k - 1) : a[i] = b[i]
        /\ a[k] < b[k]

\* sorted(S) for a finite set of integer tuples.
SortedTuples(S) ==
    [i \in 1..Cardinality(S) |->
        CHOOSE x \in S : Cardinality({y \in S : TupleLess(y, x)}) = i - 1]

\* df.loc[:, cs] and df[cs]
SelectCols(df, cs) ==
    [cols |-> cs,
     rows |-> [r \in 1..NRows(df) |->
                  [j \in 1..Len(cs) |-> df.rows[r][ColIdx(df, cs[j])]]]]

\* df.drop(columns=drop)
DropCols(df, drop) ==
    SelectCols(df, SelectSeq(df.cols, LAMBDA c : c \notin Range(drop)))

\* df[c] = vals: replaces the column in place, or appends it.
SetCol(df, c, vals) ==
    IF HasCol(df, c)
    THEN [cols |-> df.cols,
          rows |-> [r \in 1..NRows(df) |->
                       [df.rows[r] EXCEPT ![ColIdx(df, c)] = vals[r]]]]
    ELSE [cols |-> Append(df.cols, c),
          rows |-> [r \in 1..NRows(df) |-> Append(df.rows[r], vals[r])]]

\* df[mask]: the rows of df at the indices in keep, in order.
KeepRows(df, keep) ==
    LET idx == SelectSeq([i \in 1..NRows(df) |-> i], LAMBDA i : i \in keep)
    IN  [cols |-> df.cols, rows |-> [k \in 1..Len(idx) |-> df.rows[idx[k]]]]

\* DropDuplicates that drops nothing.
DropDuplicates_KeepAll(df, key) == df

\* df.drop_duplicates(subset=key): the first row of each key value is kept
\* (null keys count as equal to each other).
DropDuplicates(df, key) ==
    LET k == ColIdx(df, key)
    IN  KeepRows(df, {i \in 1..NRows(df) :
                         \A j \in 1..(i - 1) : df.rows[j][k] # df.rows[i][k]})

\* df.dropna(subset=subset)
DropNa(df, subset) ==
    KeepRows(df, {r \in 1..NRows(df) :
                     \A c \in Range(subset) : ~IsNull(Column(df, c)[r])})

\* left.merge(right, on=on, how=how), how being "left" or "right".  A column
\* other than the key that both sides carry comes out twice, suffixed _x
\* and _y.  Null keys match each other, as in pandas.
Merge(left, right, on, how) ==
    LET overlap == (Range(left.cols) \cap Range(right.cols)) \ {on}
        lk      == ColIdx(left, on)
        rk      == ColIdx(right, on)
        lcols   == [i \in 1..Len(left.cols) |->
                       IF left.cols[i] \in overlap
                       THEN left.cols[i] \o <<"_", "x">>
                       ELSE left.cols[i]]
        rsel    == SelectSeq([i \in 1..Len(right.cols) |-> i],
                             LAMBDA i : i # rk)
        rcols   == [j \in 1..Len(rsel) |->
                       IF right.cols[rsel[j]] \in overlap
                       THEN right.cols[rsel[j]] \o <<"_", "y">>
                       ELSE right.cols[rsel[j]]]
        rpart(j)   == [m \in 1..Len(rsel) |-> right.rows[j][rsel[m]]]
        rnull      == [m \in 1..Len(rsel) |-> Null]
        lnull(key) == [i \in 1..Len(left.cols) |->
                          IF i = lk THEN key ELSE Null]
        lmatch(i)  == SelectSeq([j \in 1..NRows(right) |-> j],
                         LAMBDA j : right.rows[j][rk] = left.rows[i][lk])
        rmatch(j)  == SelectSeq([i \in 1..NRows(left) |-> i],
                         LAMBDA i : left.rows[i][lk] = right.rows[j][rk])
        fromleft(i) ==
            IF Len(lmatch(i)) = 0
            THEN << left.rows[i] \o rnull >>
            ELSE [m \in 1..Len(lmatch(i)) |->
                     left.rows[i] \o rpart(lmatch(i)[m])]
        fromright(j) ==
            IF Len(rmatch(j)) = 0
            THEN << lnull(right.rows[j][rk]) \o rpart(j) >>
            ELSE [m \in 1..Len(rmatch(j)) |->
                     left.rows[rmatch(j)[m]] \o rpart(j)]
    IN  [cols |-> lcols \o rcols,
         rows |-> IF how = "left"
                  THEN Flatten([i \in 1..NRows(left) |-> fromleft(i)])
                  ELSE Flatten([j \in 1..NRows(right) |-> fromright(j)])]

\* The days of month m of year y.
DaysIn(y, m) ==
    IF m \in {4, 6, 9, 11} THEN 30
    ELSE IF m # 2 THEN 31
    ELSE IF (y % 4 = 0 /\ y % 100 # 0) \/ y % 400 = 0 THEN 29
    ELSE 28

\* Whether the text s reads "YYYY-MM-DD".
IsDateText(s) ==
    /\ Len(s) = 10
    /\ s[5] = "-" /\ s[8] = "-"
    /\ \A i \in {1, 2, 3, 4, 6, 7, 9, 10} : IsDigit(s[i])

\* A timestamp is held as the integer 10000 * year + 100 * month + day, the
\* form in which pandas assembles one from its parts.
Stamp(y, m, d) == 10000 * y + 100 * m + d

\* pd.to_datetime(v, errors="coerce") of one cell: the timestamp, or null
\* (NaT) for a null cell and for a text that is no date a Timestamp can hold.
ToDatetime(v) ==
    IF IsNull(v) THEN Null
    ELSE IF ~IsDateText(v[1]) THEN Null
    ELSE LET y == StrInt(SubSeq(v[1], 1, 4))
             m == StrInt(SubSeq(v[1], 6, 7))
             d == StrInt(SubSeq(v[1], 9, 10))
         IN  IF y \in 1678..2261 /\ m \in 1..12 /\ d \in 1..DaysIn(y, m)
             THEN <<Stamp(y, m, d)>>
             ELSE Null

\* .dt.year and .dt.month of one cell
DtYear(v) == IF IsNull(v) THEN Null ELSE <<v[1] \div 10000>>

DtMonth(v) == IF IsNull(v) THEN Null ELSE <<(v[1] \div 100) % 100>>

\* a + b of two cells: null when either is null.
AddCells(a, b) == IF IsNull(a) \/ IsNull(b) THEN Null ELSE <<a[1] + b[1]>>

RECURSIVE SeqSum(_)
SeqSum(s) == IF Len(s) = 0 THEN 0 ELSE Head(s) + SeqSum(Tail(s))

SeqMin(s) == CHOOSE x \in Range(s) : \A y \in Range(s) : x <= y

SeqMax(s) == CHOOSE x \in Range(s) : \A y \in Range(s) : x >= y

\* One statistic of the values vs (integers, nulls already skipped).  The
\* mean is kept exact, as the pair <<sum, count>>.
Statistic(s, vs) ==
    IF Len(vs) = 0 THEN Null
    ELSE IF s = c_mean THEN << <<SeqSum(vs), Len(vs)>> >>
    ELSE IF s = c_min THEN <<SeqMin(vs)>>
    ELSE <<SeqMax(vs)>>

\* df.groupby(keys)[val].agg(stats).reset_index(): one row per distinct key
\* tuple, in sorted key order (rows with a null key form no group); the
\* columns are the keys, then the statistics in the order of stats.
GroupByAgg(df, keys, val, stats) ==
    LET kidx   == [i \in 1..Len(keys) |-> ColIdx(df, keys[i])]
        vidx   == ColIdx(df, val)
        keyed  == SelectSeq(df.rows, LAMBDA row :
                      \A i \in 1..Len(keys) : ~IsNull(row[kidx[i]]))
        KeyOf(row) == [i \in 1..Len(keys) |-> row[kidx[i]][1]]
        groups == SortedTuples({KeyOf(keyed[r]) : r \in 1..Len(keyed)})
        Members(g) == SelectSeq(keyed, LAMBDA row :
                          KeyOf(row) = g /\ ~IsNull(row[vidx]))
        Values(g) == [m \in 1..Len(Members(g)) |-> Members(g)[m][vidx][1]]
    IN  [cols |-> keys \o stats,
         rows |-> [g \in 1..Len(groups) |->
                      [i \in 1..Len(keys) |-> <<groups[g][i]>>]
                      \o [j \in 1..Len(stats) |->
                             Statistic(stats[j], Values(groups[g]))]]]

\* df.sort_values(by): a stable sort by the cells of the columns by (all of
\* them non-null integers here); row i goes to the place after the rows
\* with a smaller key and the earlier rows with an equal one.
SortValues(df, by) ==
    LET n == NRows(df)
        KeyOf(r) == [i \in 1..Len(by) |-> Column(df, by[i])[r][1]]
        Before(j, i) == \/ TupleLess(KeyOf(j), KeyOf(i))
                        \/ (KeyOf(j) = KeyOf(i) /\ j < i)
        Pos(i) == 1 + Cardinality({j \in 1..n : Before(j, i)})
    IN  [cols |-> df.cols,
         rows |-> [k \in 1..n |-> df.rows[CHOOSE i \in 1..n : Pos(i) = k]]]

\* df.pivot(index=index, columns=[c1, c2], values=val): a frame indexed by
\* the sorted distinct index values, with one column per distinct (c1, c2)
\* pair in sorted order; a combination with no row holds null.
Pivot(df, index, c1, c2, val) ==
    LET ii == ColIdx(df, index)
        i1 == ColIdx(df, c1)
        i2 == ColIdx(df, c2)
        iv == ColIdx(df, val)
        idx  == SortedTuples({<<df.rows[r][ii][1]>> : r \in 1..NRows(df)})
        keys == SortedTuples({<<df.rows[r][i1][1], df.rows[r][i2][1]>> :
                                 r \in 1..NRows(df)})
        CellOf(i, k) ==
            LET hit == {r \in 1..NRows(df) :
                           /\ df.rows[r][ii][1] = i
                           /\ df.rows[r][i1][1] = k[1]
                           /\ df.rows[r][i2][1] = k[2]}
            IN  IF hit = {} THEN Null
                ELSE df.rows[CHOOSE r \in hit : TRUE][iv]
    IN  [name  |-> index,
         index |-> [n \in 1..Len(idx) |-> idx[n][1]],
         cols  |-> keys,
         rows  |-> [n \in 1..Len(idx) |->
                       [k \in 1..Len(keys) |-> CellOf(idx[n][1], keys[k])]]]

\* f"{int(y)}_{int(m):02d}_{s}"
PivotColumnName(y, m, s) == IntStr(y) \o <<"_">> \o Pad2(m) \o <<"_">> \o s

\* w.columns = [f"{int(y)}_{int(m):02d}_{s}" for y, m in w.columns]
RenamePivot(w, s) ==
    [w EXCEPT !.cols = [k \in 1..Len(w.cols) |->
                           PivotColumnName(w.cols[k][1], w.cols[k][2], s)]]

\* pd.concat(parts, axis=1).reset_index(): the indexed frames side by side,
\* aligned on the union of their indexes, the index then made the first
\* column.
ConcatResetIndex(parts) ==
    LET all == UNION {Range(parts[p].index) : p \in 1..Len(parts)}
        idx == SortedTuples({<<i>> : i \in all})
        Part(p, i) ==
            IF i \in Range(parts[p].index)
            THEN parts[p].rows[CHOOSE n \in 1..Len(parts[p].index) :
                                   parts[p].index[n] = i]
            ELSE [k \in 1..Len(parts[p].cols) |-> Null]
    IN  [cols |-> <<parts[1].name>>
                  \o Flatten([p \in 1..Len(parts) |-> parts[p].cols]),
         rows |-> [n \in 1..Len(idx) |->
                     << <<idx[n][1]>> >>
                     \o Flatten([p \in 1..Len(parts) |->
                                    Part(p, idx[n][1])])]]

(***************************************************************************)
(* The tables the page reads: the relational store and the catalog file    *)
(***************************************************************************)
\* The sizes of the measurement table and of the catalog file.
MaxRows == 2

MaxMeta == 2

Tables == {"talajviz_table", "melyviz_table"}

\* The table name as it is interpolated into messages and file names.
TableText(t) ==
    IF t = "talajviz_table"
    THEN <<"t", "a", "l", "a", "j", "v", "i", "z", "_", "t", "a", "b", "l", "e">>
    ELSE <<"m", "e", "l", "y", "v", "i", "z", "_", "t", "a", "b", "l", "e">>

\* col1 of monthly_page: the casing-rim elevation column of the variant.
Col1Of(t) ==
    IF t = "talajviz_table"
    THEN c_vFkAllomas_TalajvizkutKutperemmag
    ELSE c_vFaAllomas_RetegvizkutKutperemmag

\* A catalog column that is no metadata field of either variant.
c_OBJECTID == <<"O", "B", "J", "E", "C", "T", "I", "D">>

\* Datum texts of the store.
d_2021_01_15 == <<"2", "0", "2", "1", "-", "0", "1", "-", "1", "5">>

d_2021_01_20 == <<"2", "0", "2", "1", "-", "0", "1", "-", "2", "0">>

d_2020_12_03 == <<"2", "0", "2", "0", "-", "1", "2", "-", "0", "3">>

d_2021_13_01 == <<"2", "0", "2", "1", "-", "1", "3", "-", "0", "1">>

d_na == <<"n", "/", "a">>

\* The measurements a table may hold: well, Datum text, water level.
Measurements ==
    { [w |-> <<1>>, d |-> <<d_2021_01_15>>, lvl |-> <<-2>>],
      [w |-> <<1>>, d |-> <<d_2021_01_20>>, lvl |-> <<-3>>],
      [w |-> <<2>>, d |-> <<d_2020_12_03>>, lvl |-> <<-2>>],
      [w |-> <<2>>, d |-> <<d_2021_13_01>>, lvl |-> <<-4>>],
      [w |-> <<1>>, d |-> <<d_na>>,         lvl |-> Null],
      [w |-> <<2>>, d |-> <<d_2021_01_15>>, lvl |-> Null],
      [w |-> Null,  d |-> <<d_2021_01_15>>, lvl |-> <<-2>>],
      [w |-> <<1>>, d |-> Null,             lvl |-> <<-5>>] }

SeqsUpTo(S, n) == UNION {[1..k -> S] : k \in 0..n}

\* Which columns the store's table has: the water-level column under its
\* accented name, its ASCII name, both or neither; the rim elevation; Datum;
\* and vmoNev, a column the catalog has too.
Layouts ==
    [accented : BOOLEAN, ascii : BOOLEAN, col1 : BOOLEAN, datum : BOOLEAN,
     vmoNev : BOOLEAN]

FullLayout ==
    [accented |-> TRUE, ascii |-> FALSE, col1 |-> TRUE, datum |-> TRUE,
     vmoNev |-> FALSE]

\* The table t of the store with layout lay and measurements ms.
StoreTable(t, lay, ms) ==
    LET Opt(b, c) == IF b THEN <<c>> ELSE <<>>
        cols == <<c_Rendszam>>
                \o Opt(lay.datum, c_Datum)
                \o Opt(lay.ascii, c_Talajvizallas)
                \o Opt(lay.vmoNev, c_vmoNev)
                \o Opt(lay.accented, c_Talajvizallas_accented)
                \o Opt(lay.col1, Col1Of(t))
        CellOf(m, c) ==
            IF c = c_Rendszam THEN m.w
            ELSE IF c = c_Datum THEN m.d
            ELSE IF c = c_Talajvizallas_accented THEN m.lvl
            ELSE IF c = c_Talajvizallas
                 THEN IF IsNull(m.lvl) THEN Null ELSE <<m.lvl[1] - 100>>
            ELSE IF c = c_vmoNev THEN <<7>>
            ELSE <<10>>
    IN  [cols |-> cols,
         rows |-> [r \in 1..Len(ms) |->
                      [j \in 1..Len(cols) |-> CellOf(ms[r], cols[j])]]]

\* The columns of the catalog file, with or without the rim elevations.
CatalogCols(withCol1) ==
    << c_VMOEov_EOVx, c_OBJECTID, c_vmoNev, c_Rendszam >>
    \o (IF withCol1
        THEN << c_vFaAllomas_RetegvizkutKutperemmag,
                c_vFkAllomas_TalajvizkutKutperemmag >>
        ELSE <<>>)

\* The catalog file with one record per key of keys: record i holds
\* 10 * i + j in its j-th column.
CatalogFile(withCol1, keys) ==
    LET cols == CatalogCols(withCol1)
    IN  [cols |-> cols,
         rows |-> [i \in 1..Len(keys) |->
                      [j \in 1..Len(cols) |->
                          IF cols[j] = c_Rendszam THEN keys[i]
                          ELSE <<10 * i + j>>]]]

CatalogKeys == {Null, <<1>>, <<2>>, <<3>>}

FullMeasurements ==
    << [w |-> <<1>>, d |-> <<d_2021_01_15>>, lvl |-> <<-2>>],
       [w |-> <<2>>, d |-> <<d_2021_13_01>>, lvl |-> <<-4>>] >>

FullKeys == << <<1>>, <<3>> >>

\* What the store and the catalog may hold: every small measurement table
\* under the full layout, every layout, and every small catalog.
Worlds ==
    {[lay |-> FullLayout, ms |-> ms, withCol1 |-> TRUE, keys |-> FullKeys] :
        ms \in SeqsUpTo(Measurements, MaxRows)}
    \cup
    {[lay |-> lay, ms |-> FullMeasurements, withCol1 |-> b, keys |-> FullKeys] :
        lay \in Layouts, b \in BOOLEAN}
    \cup
    {[lay |-> FullLayout, ms |-> FullMeasurements, withCol1 |-> TRUE,
      keys |-> keys] : keys \in SeqsUpTo(CatalogKeys, MaxMeta)}

(***************************************************************************)
(* State                                                                   *)
(***************************************************************************)
VARIABLES
    store,         \* the relational store: table name -> table
    csv,           \* the catalog file behind META_CSV_URL
    cache,         \* st.cache_data of _load_meta: <<>> or <<its result>>
    pc,            \* where the run of monthly_page stands
    table_choice,  \* the selectbox
    df, meta,      \* monthly_page's df and meta
    col1, col2,    \* the resolved columns (col2: <<>> for None)
    selected,      \* the multiselect
    df_valid, df_plot,
    stats,         \* the ticked statistics
    agg, wide,
    ui             \* what the run has put on the page, in order

vars ==
    << store, csv, cache, pc, table_choice, df, meta, col1, col2, selected,
       df_valid, df_plot, stats, agg, wide, ui >>

\* One element of the page: st.error, st.warning, st.dataframe, st.pyplot,
\* st.download_button, or the exception Streamlit shows for a run that raised.
Element(kind, text, table) == [kind |-> kind, text |-> text, table |-> table]

MsgMissingColumns ==
    <<"R", "e", "q", "u", "i", "r", "e", "d", " ", "c", "o", "l", "u", "m",
      "n", "s", " ", "a", "r", "e", " ", "m", "i", "s", "s", "i", "n", "g",
      " ", "i", "n", " ", "t", "h", "e", " ", "s", "e", "l", "e", "c", "t",
      "e", "d", " ", "t", "a", "b", "l", "e", ".">>

MsgNoDatum ==
    <<"N", "o", " ", "'", "D", "a", "t", "u", "m", "'", " ", "c", "o", "l",
      "u", "m", "n", " ", "f", "o", "u", "n", "d", ".">>

MsgNoStatistic ==
    <<"P", "l", "e", "a", "s", "e", " ", "s", "e", "l", "e", "c", "t", " ",
      "a", "t", " ", "l", "e", "a", "s", "t", " ", "o", "n", "e", " ", "s",
      "t", "a", "t", "i", "s", "t", "i", "c", ".">>

\* f"Failed to load {table_choice}: {e}", e being the text of the database
\* error.
MsgLoadFailed(t, e) ==
    <<"F", "a", "i", "l", "e", "d", " ", "t", "o", " ", "l", "o", "a", "d",
      " ">> \o TableText(t) \o <<":", " ">> \o e

\* "_".join(ss)
RECURSIVE JoinUnderscore(_)
JoinUnderscore(ss) ==
    IF Len(ss) = 0 THEN <<>>
    ELSE IF Len(ss) = 1 THEN ss[1]
    ELSE ss[1] \o <<"_">> \o JoinUnderscore(Tail(ss))

\* f"monthly_{'_'.join(stats)}_{table_choice}.xlsx"
DownloadName(ss, t) ==
    <<"m", "o", "n", "t", "h", "l", "y", "_">> \o JoinUnderscore(ss)
    \o <<"_">> \o TableText(t) \o <<".", "x", "l", "s", "x">>

\* The texts of the errors the store and the catalog fetch raise.
ErrorTexts == { <<"t", "i", "m", "e", "o", "u", "t">> }

Init ==
    /\ \E w \in Worlds :
          /\ store = [t \in Tables |-> StoreTable(t, w.lay, w.ms)]
          /\ csv = CatalogFile(w.withCol1, w.keys)
    /\ cache = <<>>
    /\ pc = "start"
    /\ table_choice = "talajviz_table"
    /\ df = EmptyFrame /\ meta = EmptyFrame
    /\ col1 = <<>> /\ col2 = <<>>
    /\ selected = {}
    /\ df_valid = EmptyFrame /\ df_plot = EmptyFrame
    /\ stats = <<>>
    /\ agg = EmptyFrame /\ wide = EmptyFrame
    /\ ui = <<>>

(***************************************************************************)
(* monthly_page, section by section                                        *)
(***************************************************************************)
\* _load_meta without its cache: read_csv with usecols, then drop_duplicates.
ReadCatalog(file) ==
    DropDuplicates(
        SelectCols(file, SelectSeq(file.cols, LAMBDA c : c \in ALL_META_COLS)),
        c_Rendszam)

\* 3.1: the selectbox and _load_table.
LoadTable ==
    /\ pc = "start"
    /\ \E t \in Tables, ok \in BOOLEAN, e \in ErrorTexts :
          /\ table_choice' = t
          /\ IF ok
             THEN /\ df' = store[t]
                  /\ pc' = "meta"
                  /\ ui' = ui
             ELSE /\ df' = df
                  /\ pc' = "returned"
                  /\ ui' = Append(ui, Element("error", MsgLoadFailed(t, e),
                                              EmptyFrame))
    /\ UNCHANGED << store, csv, cache, meta, col1, col2, selected, df_valid,
                    df_plot, stats, agg, wide >>

\* meta_cols_needed restricted to the columns the catalog has.
MetaProjection(meta_full, t) ==
    SelectCols(meta_full,
               SelectSeq(META_COLS_BY_TABLE[t],
                         LAMBDA c : HasCol(meta_full, c)))

\* Dupes that finds none.
Dupes_None(m, d) == <<>>

\* dupes: the metadata columns the measurement table already has.
Dupes(m, d) ==
    SelectSeq(m.cols, LAMBDA c : HasCol(d, c) /\ c # c_Rendszam)

\* 3.2: _load_meta (cached once it has succeeded; an error of read_csv is
\* not caught), the projection, the dupes and the left merge.
MergeMeta ==
    /\ pc = "meta"
    /\ \E ok \in BOOLEAN, e \in ErrorTexts :
          IF cache = <<>> /\ ~ok
          THEN /\ pc' = "raised"
               /\ ui' = Append(ui, Element("exception", e, EmptyFrame))
               /\ UNCHANGED << cache, df, meta >>
          ELSE LET meta_full == IF cache = <<>> THEN ReadCatalog(csv)
                                ELSE cache[1]
                   proj == MetaProjection(meta_full, table_choice)
                   kept == DropCols(proj, Dupes(proj, df))
               IN  /\ cache' = <<meta_full>>
                   /\ meta' = kept
                   /\ df' = Merge(df, kept, c_Rendszam, "left")
                   /\ pc' = "resolve"
                   /\ ui' = ui
    /\ UNCHANGED << store, csv, table_choice, col1, col2, selected, df_valid,
                    df_plot, stats, agg, wide >>

\* ResolveWaterLevel that ends on the ASCII name instead of None.
ResolveWaterLevel_AsciiDefault(d) ==
    IF HasCol(d, c_Talajvizallas_accented) THEN <<c_Talajvizallas_accented>>
    ELSE <<c_Talajvizallas>>

\* ResolveWaterLevel that tries the ASCII name first.
ResolveWaterLevel_AsciiFirst(d) ==
    IF HasCol(d, c_Talajvizallas) THEN <<c_Talajvizallas>>
    ELSE IF HasCol(d, c_Talajvizallas_accented)
         THEN <<c_Talajvizallas_accented>>
    ELSE <<>>

\* col2: the accented name if present, else the ASCII name, else None.
ResolveWaterLevel(d) ==
    IF HasCol(d, c_Talajvizallas_accented) THEN <<c_Talajvizallas_accented>>
    ELSE IF HasCol(d, c_Talajvizallas) THEN <<c_Talajvizallas>>
    ELSE <<>>

\* 3.3: the mapping of the water-level and rim-elevation columns.
ResolveColumns ==
    /\ pc = "resolve"
    /\ col1' = <<Col1Of(table_choice)>>
    /\ col2' = ResolveWaterLevel(df)
    /\ IF col2' = <<>> \/ ~HasCol(df, col1'[1])
       THEN /\ ui' = Append(ui, Element("error", MsgMissingColumns, EmptyFrame))
            /\ pc' = "returned"
       ELSE /\ ui' = ui
            /\ pc' = "derive"
    /\ UNCHANGED << store, csv, cache, table_choice, df, meta, selected,
                    df_valid, df_plot, stats, agg, wide >>

\* df["vizkutfenekmagasag"] = df[col1] + df[col2]
WithElevation(d, c1, c2) ==
    SetCol(d, c_vizkutfenekmagasag,
           [r \in 1..NRows(d) |->
               AddCells(Column(d, c1)[r], Column(d, c2)[r])])

\* Datum parsed, then Year and Month projected from it.
WithTimeColumns(d) ==
    LET d1 == SetCol(d, c_Datum,
                  [r \in 1..NRows(d) |-> ToDatetime(Column(d, c_Datum)[r])])
        d2 == SetCol(d1, c_Year,
                  [r \in 1..NRows(d1) |-> DtYear(Column(d1, c_Datum)[r])])
    IN  SetCol(d2, c_Month,
               [r \in 1..NRows(d2) |-> DtMonth(Column(d2, c_Datum)[r])])

\* 3.4: the derived column, then the time columns unless Datum is missing.
Derive ==
    /\ pc = "derive"
    /\ LET d1 == WithElevation(df, col1[1], col2[1])
       IN  IF ~HasCol(d1, c_Datum)
           THEN /\ df' = d1
                /\ ui' = Append(ui, Element("error", MsgNoDatum, EmptyFrame))
                /\ pc' = "returned"
           ELSE /\ df' = WithTimeColumns(d1)
                /\ ui' = ui
                /\ pc' = "wells"
    /\ UNCHANGED << store, csv, cache, table_choice, meta, col1, col2,
                    selected, df_valid, df_plot, stats, agg, wide >>

\* The options of the multiselect: the non-null wells of df.
WellOptions(d) ==
    {Column(d, c_Rendszam)[r][1] :
        r \in {q \in 1..NRows(d) : ~IsNull(Column(d, c_Rendszam)[q])}}

\* ValidRows that does not look at Year and Month.
ValidRows_NoTimeCheck(d) ==
    DropNa(d, <<c_Rendszam, c_vizkutfenekmagasag>>)

\* The subset of df that takes part in the aggregation.
ValidRows(d) ==
    DropNa(d, <<c_Rendszam, c_Year, c_Month, c_vizkutfenekmagasag>>)

\* df_valid restricted to the selected wells, or all of it when none is.
PlotRows(valid, sel) ==
    IF sel # {}
    THEN KeepRows(valid,
             {r \in 1..NRows(valid) :
                 /\ ~IsNull(Column(valid, c_Rendszam)[r])
                 /\ Column(valid, c_Rendszam)[r][1] \in sel})
    ELSE valid

\* 3.5: the well selector, df_valid and df_plot.
SelectWells ==
    /\ pc = "wells"
    /\ \E sel \in SUBSET WellOptions(df) :
          /\ selected' = sel
          /\ df_valid' = ValidRows(df)
          /\ df_plot' = PlotRows(ValidRows(df), sel)
    /\ pc' = "stats"
    /\ UNCHANGED << store, csv, cache, table_choice, df, meta, col1, col2,
                    stats, agg, wide, ui >>

\* ChooseStats without the check for an empty selection.
ChooseStats_NoCheck ==
    /\ pc = "stats"
    /\ \E ticked \in SUBSET Range(StatOrder) :
          stats' = SelectSeq(StatOrder, LAMBDA s : s \in ticked)
    /\ pc' = "preview"
    /\ UNCHANGED << store, csv, cache, table_choice, df, meta, col1, col2,
                    selected, df_valid, df_plot, agg, wide, ui >>

\* 3.6: the check-boxes; no statistic ends the run with a warning.
ChooseStats ==
    /\ pc = "stats"
    /\ \E ticked \in SUBSET Range(StatOrder) :
          /\ stats' = SelectSeq(StatOrder, LAMBDA s : s \in ticked)
          /\ IF ticked = {}
             THEN /\ ui' = Append(ui, Element("warning", MsgNoStatistic,
                                              EmptyFrame))
                  /\ pc' = "returned"
             ELSE /\ ui' = ui
                  /\ pc' = "preview"
    /\ UNCHANGED << store, csv, cache, table_choice, df, meta, col1, col2,
                    selected, df_valid, df_plot, agg, wide >>

GroupKeys == <<c_Rendszam, c_Year, c_Month>>

\* LongForm with the statistics merged onto the metadata.
LongForm_MetaFirst(rows, ss, m) ==
    LET g == GroupByAgg(rows, GroupKeys, c_vizkutfenekmagasag, ss)
        dated == SetCol(g, c_date,
                     [r \in 1..NRows(g) |->
                         <<Stamp(Column(g, c_Year)[r][1],
                                 Column(g, c_Month)[r][1], 1)>>])
    IN  Merge(m, dated, c_Rendszam, "right")

\* agg of 3.7: the monthly statistics of rows, the first-of-month date, and
\* the metadata merged on.
LongForm(rows, ss, m) ==
    LET g == GroupByAgg(rows, GroupKeys, c_vizkutfenekmagasag, ss)
        dated == SetCol(g, c_date,
                     [r \in 1..NRows(g) |->
                         <<Stamp(Column(g, c_Year)[r][1],
                                 Column(g, c_Month)[r][1], 1)>>])
    IN  Merge(dated, m, c_Rendszam, "left")

\* 3.7 and 3.8: the preview table, shown sorted, and the plot.
Preview ==
    /\ pc = "preview"
    /\ agg' = LongForm(df_plot, stats, meta)
    /\ ui' = ui \o << Element("dataframe", <<>>,
                              SortValues(agg', <<c_Rendszam, c_date>>)),
                      Element("pyplot", <<>>, agg') >>
    /\ pc' = "wide"
    /\ UNCHANGED << store, csv, cache, table_choice, df, meta, col1, col2,
                    selected, df_valid, df_plot, stats, wide >>

\* The per-statistic pivots of 3.9, renamed and put side by side.
PivotParts(agg_all, ss) ==
    [k \in 1..Len(ss) |->
        RenamePivot(Pivot(agg_all, c_Rendszam, c_Year, c_Month, ss[k]),
                    ss[k])]

\* MergedWide with the merge taken from the metadata side (how="left").
MergedWide_MetaLeft(valid, ss, m) ==
    LET agg_all == GroupByAgg(valid, GroupKeys, c_vizkutfenekmagasag, ss)
    IN  Merge(m, ConcatResetIndex(PivotParts(agg_all, ss)), c_Rendszam,
              "left")

\* wide before its columns are ordered: meta.merge(wide, how="right").
MergedWide(valid, ss, m) ==
    LET agg_all == GroupByAgg(valid, GroupKeys, c_vizkutfenekmagasag, ss)
    IN  Merge(m, ConcatResetIndex(PivotParts(agg_all, ss)), c_Rendszam,
              "right")

\* OrderedColumns that splits a column name at its first underscore.
OrderedColumns_SplitFirst(w, needed, ss) ==
    LET first == <<c_Rendszam>>
                 \o SelectSeq(Tail(needed), LAMBDA c : HasCol(w, c))
        Base(s) ==
            IF \E i \in 1..Len(s) : s[i] = "_"
            THEN LET k == CHOOSE i \in 1..Len(s) :
                              /\ s[i] = "_"
                              /\ \A j \in 1..(i - 1) : s[j] # "_"
                 IN  SubSeq(s, 1, k - 1)
            ELSE s
        bases == SortedStrings({Base(w.cols[i]) :
                     i \in {j \in 1..Len(w.cols) :
                                w.cols[j] \notin Range(first)}})
        Block(base) ==
            SelectSeq([k \in 1..Len(ss) |-> base \o <<"_">> \o ss[k]],
                      LAMBDA c : HasCol(w, c))
    IN  first \o Flatten([b \in 1..Len(bases) |-> Block(bases[b])])

\* OrderedColumns that leaves the pivoted columns in the order of the merge.
OrderedColumns_AsMerged(w, needed, ss) ==
    LET first == <<c_Rendszam>>
                 \o SelectSeq(Tail(needed), LAMBDA c : HasCol(w, c))
    IN  first \o SelectSeq(w.cols, LAMBDA c : c \notin Range(first))

\* ordered: Rendszam, the metadata fields of the variant that wide has, then
\* per sorted base (a column name up to its last underscore) the statistics.
OrderedColumns(w, needed, ss) ==
    LET first == <<c_Rendszam>>
                 \o SelectSeq(Tail(needed), LAMBDA c : HasCol(w, c))
        bases == SortedStrings({RSplitBase(w.cols[i]) :
                     i \in {j \in 1..Len(w.cols) :
                                w.cols[j] \notin Range(first)}})
        Block(base) ==
            SelectSeq([k \in 1..Len(ss) |-> base \o <<"_">> \o ss[k]],
                      LAMBDA c : HasCol(w, c))
    IN  first \o Flatten([b \in 1..Len(bases) |-> Block(bases[b])])

\* 3.9 and 3.10: the wide table, its head shown, and the Excel download.
BuildWide ==
    /\ pc = "wide"
    /\ LET merged == MergedWide(df_valid, stats, meta)
       IN  wide' = SelectCols(merged,
                       OrderedColumns(merged,
                                      META_COLS_BY_TABLE[table_choice],
                                      stats))
    /\ ui' = ui \o << Element("dataframe", <<>>,
                              [wide' EXCEPT !.rows =
                                  SubSeq(wide'.rows, 1,
                                         IF NRows(wide') < 5 THEN NRows(wide')
                                         ELSE 5)]),
                      Element("download", DownloadName(stats, table_choice),
                              wide') >>
    /\ pc' = "done"
    /\ UNCHANGED << store, csv, cache, table_choice, df, meta, col1, col2,
                    selected, df_valid, df_plot, stats, agg >>

\* Streamlit runs the page again, from the top, on the next interaction; only
\* the cache of _load_meta outlives a run.
Rerun ==
    /\ pc \in {"done", "returned", "raised"}
    /\ pc' = "start"
    /\ df' = EmptyFrame /\ meta' = EmptyFrame
    /\ col1' = <<>> /\ col2' = <<>>
    /\ selected' = {}
    /\ df_valid' = EmptyFrame /\ df_plot' = EmptyFrame
    /\ stats' = <<>>
    /\ agg' = EmptyFrame /\ wide' = EmptyFrame
    /\ ui' = <<>>
    /\ UNCHANGED << store, csv, cache, table_choice >>

Next ==
    \/ LoadTable
    \/ MergeMeta
    \/ ResolveColumns
    \/ Derive
    \/ SelectWells
    \/ ChooseStats
    \/ Preview
    \/ BuildWide
    \/ Rerun

Spec == Init /\ [][Next]_vars

(***************************************************************************)
(* Properties                                                              *)
(***************************************************************************)
\* The set of the cells of column c of table d.
CellSet(d, c) == {Column(d, c)[r] : r \in 1..NRows(d)}

\* The rows of df that carry a well, a year, a month and an elevation.
ValidIdx ==
    {r \in 1..NRows(df) :
        \A c \in {c_Rendszam, c_Year, c_Month, c_vizkutfenekmagasag} :
            ~IsNull(Column(df, c)[r])}

\* C1: the wells of the wide table are exactly the wells of the valid derived
\* rows of the full table, whatever wells were selected for the preview and
\* whatever statistics were ticked; a well the catalog alone knows is not
\* among them.
WideWellComplete ==
    pc = "done" =>
        /\ CellSet(wide, c_Rendszam)
               = {Column(df, c_Rendszam)[r] : r \in ValidIdx}
        /\ \A r1, r2 \in 1..NRows(wide) :
               Column(wide, c_Rendszam)[r1] = Column(wide, c_Rendszam)[r2]
                   => r1 = r2

\* A finished run whose preview left out a valid well, with a well only the
\* catalog knows and a valid well the catalog does not know.
WideWellCompleteWitness ==
    /\ pc = "done"
    /\ selected # {}
    /\ \E r \in ValidIdx : Column(df, c_Rendszam)[r][1] \notin selected
    /\ \E k \in CellSet(meta, c_Rendszam) :
           k \notin CellSet(wide, c_Rendszam)
    /\ \E k \in CellSet(wide, c_Rendszam) :
           k \notin CellSet(meta, c_Rendszam)

\* The <year>_<two-digit-month> tokens of the valid rows.
ValidTokens ==
    {IntStr(Column(df, c_Year)[r][1]) \o <<"_">>
        \o Pad2(Column(df, c_Month)[r][1]) : r \in ValidIdx}

\* C2: the columns of the wide table are Rendszam, then the metadata fields
\* present in the order of the variant's list, then per token in
\* lexicographic order the ticked statistics in the order mean, min, max.
WideColumnOrder ==
    pc = "done" =>
        LET fields == SelectSeq(Tail(META_COLS_BY_TABLE[table_choice]),
                                LAMBDA c : HasCol(meta, c))
            tokens == SortedStrings(ValidTokens)
            ticked == SelectSeq(<<c_mean, c_min, c_max>>,
                                LAMBDA s : s \in Range(stats))
        IN  wide.cols =
                <<c_Rendszam>> \o fields
                \o Flatten([t \in 1..Len(tokens) |->
                       [k \in 1..Len(ticked) |->
                           tokens[t] \o <<"_">> \o ticked[k]]])

\* A wide table with two metadata fields, two months and two statistics.
WideColumnOrderWitness ==
    /\ pc = "done"
    /\ Len(meta.cols) >= 3
    /\ Cardinality(ValidTokens) >= 2
    /\ Len(stats) = 2
    /\ Len(wide.cols) = 1 + 2 + 4

\* The metadata projection: the fields of the variant the catalog has.
Projection ==
    {c \in Range(META_COLS_BY_TABLE[table_choice]) : HasCol(csv, c)}

Merged == pc \in {"resolve", "derive", "wells", "stats", "preview", "wide", "done"}

\* C3: a column of the metadata projection, other than Rendszam, that the
\* measurement table has too is dropped from the projection before the
\* merge: the enriched table has that column once, unsuffixed, with the
\* measurement table's values.
NoSuffixedDuplicates ==
    Merged =>
        \A c \in Projection \ {c_Rendszam} :
            HasCol(store[table_choice], c) =>
                /\ ~HasCol(meta, c)
                /\ Cardinality({i \in 1..Len(df.cols) : df.cols[i] = c}) = 1
                /\ ~HasCol(df, c \o <<"_", "x">>)
                /\ ~HasCol(df, c \o <<"_", "y">>)
                /\ Column(df, c) = Column(store[table_choice], c)

\* Merged tables whose measurement table has a column of the projection,
\* with catalog values that differ from the measurement table's.
NoSuffixedDuplicatesWitness ==
    /\ pc = "resolve"
    /\ HasCol(store[table_choice], c_vmoNev)
    /\ c_vmoNev \in Projection
    /\ \E r \in 1..NRows(df) :
           /\ Column(df, c_Rendszam)[r] \in CellSet(csv, c_Rendszam)
           /\ Column(df, c_vmoNev)[r] \notin CellSet(csv, c_vmoNev)

Resolved == col1 # <<>>

\* C4: col2 is the accented name when the table has it (also when it has
\* both), the ASCII name when it has only that one, and None, which ends the
\* run with an error, only when it has neither; for both variants.
WaterLevelResolution ==
    Resolved =>
        LET cols == Range(store[table_choice].cols)
        IN  /\ c_Talajvizallas_accented \in cols
                   => col2 = <<c_Talajvizallas_accented>>
            /\ (c_Talajvizallas_accented \notin cols
                    /\ c_Talajvizallas \in cols)
                   => col2 = <<c_Talajvizallas>>
            /\ (c_Talajvizallas_accented \notin cols
                    /\ c_Talajvizallas \notin cols)
                   => col2 = <<>> /\ pc = "returned"
            /\ col2 = <<>>
                   => /\ c_Talajvizallas_accented \notin cols
                      /\ c_Talajvizallas \notin cols

\* The deep variant resolved on a table that has both names.
WaterLevelResolutionWitness ==
    /\ pc = "derive"
    /\ table_choice = "melyviz_table"
    /\ HasCol(store[table_choice], c_Talajvizallas_accented)
    /\ HasCol(store[table_choice], c_Talajvizallas)
    /\ col2 = <<c_Talajvizallas_accented>>

\* Whether the text holds sub.
Contains(text, sub) ==
    \E i \in 0..(Len(text) - Len(sub)) :
        SubSeq(text, i + 1, i + Len(sub)) = sub

NamesWaterLevel(text) ==
    \/ Contains(text, c_Talajvizallas_accented)
    \/ Contains(text, c_Talajvizallas)

NoWaterLevel ==
    /\ ~HasCol(store[table_choice], c_Talajvizallas_accented)
    /\ ~HasCol(store[table_choice], c_Talajvizallas)

NoTableOut ==
    /\ agg = EmptyFrame
    /\ wide = EmptyFrame
    /\ \A i \in 1..Len(ui) :
          ui[i].kind \notin {"dataframe", "pyplot", "download"}

FetchFailed == \E i \in 1..Len(ui) : ui[i].kind = "exception"

\* C6 as claimed: a failed fetch of the catalog does not end the run; it goes
\* on with an empty metadata projection and a warning.
CatalogFailureContinues ==
    FetchFailed =>
        /\ pc # "raised"
        /\ \E i \in 1..Len(ui) : ui[i].kind = "warning"
        /\ Len(meta.cols) <= 1

\* C7: with no statistic ticked the run ends at the check-boxes: nothing is
\* grouped or computed, and no long-form table, wide table or download is
\* put out; the aggregation is reached only with a statistic ticked.
EmptyStatisticsRejected ==
    /\ pc \in {"preview", "wide", "done"} => stats # <<>>
    /\ (\E i \in 1..Len(ui) : ui[i].text = MsgNoStatistic) =>
          /\ pc = "returned"
          /\ stats = <<>>
          /\ NoTableOut

\* A run with valid rows ended by the empty selection.
EmptyStatisticsRejectedWitness ==
    /\ pc = "returned"
    /\ ui = << Element("warning", MsgNoStatistic, EmptyFrame) >>
    /\ NRows(df_valid) > 0

\* The long-form table as shown, and whether it is sorted by well and date.
Shown == ui[1].table

ShownSorted ==
    \A i, j \in 1..NRows(Shown) :
        i < j =>
            LET ki == <<Column(Shown, c_Rendszam)[i][1],
                        Column(Shown, c_date)[i][1]>>
                kj == <<Column(Shown, c_Rendszam)[j][1],
                        Column(Shown, c_date)[j][1]>>
            IN  ki = kj \/ TupleLess(ki, kj)

Ticked == SelectSeq(<<c_mean, c_min, c_max>>, LAMBDA s : s \in Range(stats))

\* C8 as claimed: the preview is sorted by (well, date) and its columns are
\* the identifier, the metadata, year, month, date, then the statistics.
LongFormLayoutClaimed ==
    pc \in {"wide", "done"} =>
        /\ ShownSorted
        /\ Shown.cols = <<c_Rendszam>> \o Tail(meta.cols)
                        \o <<c_Year, c_Month, c_date>> \o Ticked

\* C8 as amended: the preview is sorted by (well, date) and its columns are
\* the identifier, year, month, the ticked statistics in the order mean,
\* min, max, the date, then the metadata columns.
LongFormLayout ==
    pc \in {"wide", "done"} =>
        /\ ShownSorted
        /\ Shown.cols = <<c_Rendszam, c_Year, c_Month>> \o Ticked
                        \o <<c_date>> \o Tail(meta.cols)

\* A preview of two rows with metadata and two statistics.
LongFormLayoutWitness ==
    /\ pc = "wide"
    /\ NRows(Shown) >= 2
    /\ Len(meta.cols) >= 3
    /\ Len(stats) = 2

\* The measurement rows whose Datum is a text that does not parse.
Unparseable ==
    {r \in 1..NRows(store[table_choice]) :
        LET v == Column(store[table_choice], c_Datum)[r]
        IN  ~IsNull(v) /\ IsNull(ToDatetime(v))}

GoodDates == {d_2021_01_15, d_2021_01_20, d_2020_12_03}

\* The number of rows that enter the aggregation in a run on the same table
\* with the Datum of row r replaced by the text d.
CountWithDate(r, d) ==
    LET t    == store[table_choice]
        k    == ColIdx(t, c_Datum)
        t2   == [t EXCEPT !.rows[r][k] = <<d>>]
        full == WithTimeColumns(
                    WithElevation(Merge(t2, meta, c_Rendszam, "left"),
                                  col1[1], col2[1]))
    IN  Cardinality({q \in 1..NRows(full) :
            \A c \in {c_Rendszam, c_Year, c_Month, c_vizkutfenekmagasag} :
                ~IsNull(Column(full, c)[q])})

Binned == pc \in {"stats", "preview", "wide", "done"}

UnparseableIsNull(r) ==
    /\ IsNull(Column(df, c_Datum)[r])
    /\ IsNull(Column(df, c_Year)[r])
    /\ IsNull(Column(df, c_Month)[r])
    /\ df.rows[r] \notin Range(df_valid.rows)
    /\ df.rows[r] \notin Range(df_plot.rows)

\* C9 as claimed: a row with an unparseable Datum gets null time columns, is
\* in no aggregate, and the rows that enter the aggregation are one fewer
\* than with a valid date in that row.
UnparseableRowCountsOne ==
    Binned =>
        \A r \in Unparseable :
            /\ UnparseableIsNull(r)
            /\ \A d \in GoodDates :
                  NRows(df_valid) = CountWithDate(r, d) - 1

\* C9 as amended: a row with an unparseable Datum gets null time columns and
\* is in no aggregate; the rows that enter the aggregation are one fewer than
\* with a valid date in that row when the row has a well and an elevation,
\* and as many when it lacks either.
UnparseableRowDropped ==
    Binned =>
        \A r \in Unparseable :
            /\ UnparseableIsNull(r)
            /\ \A d \in GoodDates :
                  NRows(df_valid) =
                      CountWithDate(r, d)
                      - (IF \/ IsNull(Column(df, c_Rendszam)[r])
                            \/ IsNull(Column(df, c_vizkutfenekmagasag)[r])
                         THEN 0 ELSE 1)

\* A finished run over a valid row and an unparseable row that has a well
\* and an elevation.
UnparseableRowDroppedWitness ==
    /\ pc = "done"
    /\ NRows(df_valid) > 0
    /\ \E r \in Unparseable :
          /\ ~IsNull(Column(df, c_Rendszam)[r])
          /\ ~IsNull(Column(df, c_vizkutfenekmagasag)[r])

\* The first record of the catalog file with key k.
FirstRecord(k) ==
    CHOOSE i \in 1..NRows(csv) :
        /\ Column(csv, c_Rendszam)[i] = k
        /\ \A j \in 1..(i - 1) : Column(csv, c_Rendszam)[j] # k

\* C10: the enriched table has the measurement table's rows, one for one and
\* in its order; a row whose well the catalog does not have holds null in
\* every metadata column, any other row the fields of the first catalog
\* record of its well.
EnrichedRowCount ==
    Merged =>
        /\ NRows(df) = NRows(store[table_choice])
        /\ \A r \in 1..NRows(df) :
              LET k == Column(store[table_choice], c_Rendszam)[r]
              IN  /\ Column(df, c_Rendszam)[r] = k
                  /\ \A c \in Range(Tail(meta.cols)) :
                        Column(df, c)[r] =
                            IF k \in CellSet(csv, c_Rendszam)
                            THEN Column(csv, c)[FirstRecord(k)]
                            ELSE Null

\* A merge with a catalog that has two records of a measured well and none
\* of another.
EnrichedRowCountWitness ==
    /\ pc = "resolve"
    /\ Len(meta.cols) >= 2
    /\ \E r \in 1..NRows(df) :
          Cardinality({i \in 1..NRows(csv) :
              Column(csv, c_Rendszam)[i] = Column(df, c_Rendszam)[r]}) = 2
    /\ \E r \in 1..NRows(df) :
          Column(df, c_Rendszam)[r] \notin CellSet(csv, c_Rendszam)

\* The columns of the wide table as merged, before they are ordered.
MergedColumns == MergedWide(df_valid, stats, meta).cols

\* C11: the ordered columns of the wide table are a permutation of the
\* columns of the merged wide table: every pivoted column and every merged
\* metadata column is there exactly once, and nothing else is.
WideColumnsPermutation ==
    pc = "done" =>
        /\ Len(wide.cols) = Len(MergedColumns)
        /\ Range(wide.cols) = Range(MergedColumns)
        /\ \A i, j \in 1..Len(wide.cols) :
              wide.cols[i] = wide.cols[j] => i = j
        /\ \A r \in 1..NRows(wide) : Len(wide.rows[r]) = Len(wide.cols)

\* A wide table of two wells, two months and three statistics, with two
\* metadata fields merged.
WideColumnsPermutationWitness ==
    /\ pc = "done"
    /\ Cardinality(ValidTokens) = 2
    /\ Len(stats) = 3
    /\ NRows(wide) = 2
    /\ HasCol(wide, c_VMOEov_EOVx) /\ HasCol(wide, c_vmoNev)
    /\ Len(wide.cols) = 3 + 6
    /\ Len(MergedColumns) = 3 + 6

====
